---- MODULE Spec2Model ----
(***************************************************************************)
(* Model of the InScribe AI backend (src/backend/app/main.py): the three   *)
(* store tables, the detached document pipeline and the request handlers.  *)
(* Every store round trip of the pipeline and of delete_document is one    *)
(* step, so other requests can interleave between them; the remaining      *)
(* handlers are single steps.                                              *)
(***************************************************************************)
EXTENDS Integers, Sequences, FiniteSets, TLC

\* ---------------------------------------------------------------- bounds
MaxChunks == 2

NUM_RELEVANT_CHUNKS == 3

\* Document ids (uuid4 values). Spec follows the upload that gets id 1 through
\* its pipeline run; SpecFrame starts from a store that holds documents 1 and 2.
DocIds == {1, 2}
FollowedIds == {1}
Users == {"u1", "u2"}
Uploaders == {"u1"}
NoUser == ""
NoId == 0
Null == "null"
OrigName == "a.pdf"
NewNames == {"b.pdf"}
NoName == ""
ContentTypes == {"application/pdf", "text/plain"}
Sentinel == "Error: LLM client not configured."
LlmSummary == "summary"
LlmAnswer == "llm_answer"
NoInformation == "No information available."

\* What a store round trip can do: "ok" applies and reports success; "raise"
\* does not apply and execute() raises; "errresp" does not apply and execute()
\* returns a response carrying an error; "lost" applies, but the reply never
\* arrives and execute() raises.
Outcomes == {"ok", "raise", "errresp", "lost"}
Applied(o) == o \in {"ok", "lost"}
\* execute() followed by handle_supabase_response: anything but success raises.
CheckedRaises(o) == o # "ok"
\* execute() alone: an error response is dropped silently.
UncheckedRaises(o) == o \in {"raise", "lost"}

VARIABLES
    documents,      \* table documents
    document_analyses, \* table document_analyses
    document_chunks,   \* table document_chunks
    clients,        \* which OpenAI clients the module initialised
    nextId,         \* number of ids uuid4 has handed out
    run,            \* run[d]: the background task of document d
    tempFiles,      \* files in TEMP_UPLOAD_DIR, by document id
    nSched,         \* nSched[d]: how often add_task was called for d
    del,            \* the delete_document request in flight
    dlog,           \* dlog[d]: how far a delete_document by d's uploader ever got:
                    \* "issued", "returned" (success) or "ok" (success, and each
                    \* of its three deletes took effect)
    resp            \* the response of the handler that just returned

vars == <<documents, document_analyses, document_chunks, clients, nextId, run,
          tempFiles, nSched, del, dlog, resp>>

store == <<documents, document_analyses, document_chunks>>

CompletedStatuses == {"completed", "completed_no_qna", "completed_with_errors"}
TerminalStatuses == {"completed", "completed_no_qna", "failed"}

\* ---------------------------------------------------------------- values
NoRun == [pc |-> "none", user |-> NoUser, text |-> 0, summary |-> Null,
          emb |-> 0, qna_ready |-> FALSE, raised |-> FALSE, comp |-> "none",
          escaped |-> FALSE]

NoDel == [pc |-> "idle", id |-> NoId, user |-> NoUser, applied |-> TRUE]

\* resp: op is the handler and code its HTTP status; for query_document, calls
\* are the external calls it made after the readiness read, read_ok says that
\* read returned, nfound is the number of rows the rpc returned and sumread
\* what the summary read of the fallback did.
NoResp == [op |-> "none", id |-> NoId, user |-> NoUser, code |-> 0,
           status |-> Null, summary_short |-> Null, key_findings |-> Null,
           qna_ready |-> FALSE, answer |-> Null, previews |-> <<>>,
           has_previews |-> FALSE, calls |-> {}, read_ok |-> FALSE,
           nfound |-> -1, sumread |-> "none"]

\* ---------------------------------------------------------------- store
DocRow(id, user, name, status) ==
    [id |-> id, user_id |-> user, file_name |-> name,
     processing_status |-> status, error_message |-> Null]

\* update(fields).eq("id", id) on documents, status only
UpdateStatus(docs, id, status) ==
    {IF r.id = id THEN [r EXCEPT !.processing_status = status] ELSE r : r \in docs}

\* .eq("id", id).eq("user_id", user) on documents
MatchDocUser_NoUser(r, id, user) == r.id = id
MatchDocUser(r, id, user) == r.id = id /\ r.user_id = user

\* .eq("document_id", id).eq("user_id", user) on the child tables
MatchChildUser(r, id, user) == r.document_id = id /\ r.user_id = user

DocsOf(id) == {r \in documents : r.id = id}
AnalysesOf(id) == {r \in document_analyses : r.document_id = id}
ChunksOf(id) == {r \in document_chunks : r.document_id = id}

\* ---------------------------------------------------------------- init
Init ==
    /\ documents = {}
    /\ document_analyses = {}
    /\ document_chunks = {}
    /\ clients \in {"none", "llm", "both"}
    /\ nextId = 0
    /\ run = [d \in DocIds |-> NoRun]
    /\ tempFiles = {}
    /\ nSched = [d \in DocIds |-> 0]
    /\ del = NoDel
    /\ dlog = [d \in DocIds |-> "none"]
    /\ resp = NoResp

llm_chat_client == clients \in {"llm", "both"}
embeddings_client == clients = "both"

\* ---------------------------------------------------------------- upload
UploadInsertRow(id, user) == DocRow(id, user, OrigName, "uploaded")

\* lines 315-318: add_task is reached only when the insert reported success
UploadSchedules_Unchecked(o) == TRUE
UploadSchedules(o) == o = "ok"

upload_and_process_pdf(user, ctype, o) ==
    /\ resp = NoResp
    /\ nextId + 1 \in FollowedIds
    /\ IF ctype # "application/pdf"
       THEN /\ resp' = [NoResp EXCEPT !.op = "upload", !.user = user, !.code = 400]
            /\ UNCHANGED <<documents, nextId, run, tempFiles, nSched>>
       ELSE LET id == nextId + 1 IN
            /\ nextId' = id
            /\ tempFiles' = tempFiles \cup {id}
            /\ documents' = IF Applied(o)
                            THEN documents \cup {UploadInsertRow(id, user)}
                            ELSE documents
            /\ IF UploadSchedules(o)
               THEN /\ run' = [run EXCEPT ![id] = [NoRun EXCEPT !.pc = "scheduled",
                                                               !.user = user]]
                    /\ nSched' = [nSched EXCEPT ![id] = @ + 1]
                    /\ resp' = [NoResp EXCEPT !.op = "upload", !.id = id,
                                              !.user = user, !.code = 200]
               ELSE /\ UNCHANGED <<run, nSched>>
                    /\ resp' = [NoResp EXCEPT !.op = "upload", !.id = id,
                                              !.user = user, !.code = 500]
    /\ UNCHANGED <<document_analyses, document_chunks, clients, del, dlog>>

\* ---------------------------------------------------------------- pipeline
\* RecursiveCharacterTextSplitter.split_text: a text is known by the number n
\* of chunks it splits into; its i-th chunk is <<n, i>>.
Split(text) == [i \in 1..text |-> <<text, i>>]

\* lines 212-220
ChunkRecords_OneBased(id, user, chunks) ==
    {[document_id |-> id, user_id |-> user, chunk_text |-> chunks[i],
      embedding |-> i, chunk_order |-> i] : i \in 1..Len(chunks)}

ChunkRecords(id, user, chunks) ==
    {[document_id |-> id, user_id |-> user, chunk_text |-> chunks[i],
      embedding |-> i, chunk_order |-> i - 1] : i \in 1..Len(chunks)}

\* lines 262-267
AnalysisPayload_AlwaysReady(id, user, summary, qna) ==
    [document_id |-> id, user_id |-> user, summary_short |-> summary,
     key_findings |-> Null, qna_ready |-> TRUE]

AnalysisPayload(id, user, summary, qna) ==
    [document_id |-> id, user_id |-> user, summary_short |-> summary,
     key_findings |-> Null, qna_ready |-> qna]

\* line 272
FinalStatus_Always(qna) == "completed"
FinalStatus(qna) == IF qna THEN "completed" ELSE "completed_no_qna"

\* control after a step of the try block raised
AfterRaise_NoCompensation(r) == [r EXCEPT !.pc = "finally", !.raised = TRUE]
AfterRaise_Retry(r) == [r EXCEPT !.pc = "scheduled", !.raised = TRUE]
AfterRaise(r) == [r EXCEPT !.pc = "except", !.raised = TRUE]

\* the pipeline leaves everything but the store, its run and the temp files
PipeFrame == /\ resp = NoResp
             /\ resp' = NoResp
             /\ UNCHANGED <<clients, nextId, nSched, del, dlog>>

\* lines 241-243
P_update_parsing(d, o) ==
    /\ run[d].pc = "scheduled"
    /\ documents' = IF Applied(o) THEN UpdateStatus(documents, d, "parsing")
                    ELSE documents
    /\ run' = [run EXCEPT ![d] = IF CheckedRaises(o) THEN AfterRaise(@)
                                 ELSE [@ EXCEPT !.pc = "extract"]]
    /\ UNCHANGED <<document_analyses, document_chunks, tempFiles>>
    /\ PipeFrame

\* line 246
P_extract(d, ok, n) ==
    /\ run[d].pc = "extract"
    /\ run' = [run EXCEPT ![d] = IF ~ok THEN AfterRaise(@)
                                 ELSE [@ EXCEPT !.pc = "upd_analyzing", !.text = n]]
    /\ UNCHANGED <<store, tempFiles>>
    /\ PipeFrame

\* lines 249-251
P_update_analyzing(d, o) ==
    /\ run[d].pc = "upd_analyzing"
    /\ documents' = IF Applied(o) THEN UpdateStatus(documents, d, "analyzing")
                    ELSE documents
    /\ run' = [run EXCEPT ![d] = IF CheckedRaises(o) THEN AfterRaise(@)
                                 ELSE [@ EXCEPT !.pc = "summarize"]]
    /\ UNCHANGED <<document_analyses, document_chunks, tempFiles>>
    /\ PipeFrame

\* line 254, summarize_text_with_llm
P_summarize_Raises(d, ok) ==
    /\ run[d].pc = "summarize"
    /\ run' = [run EXCEPT ![d] =
                 IF ~llm_chat_client \/ ~ok THEN AfterRaise(@)
                 ELSE [@ EXCEPT !.pc = "index", !.summary = LlmSummary]]
    /\ UNCHANGED <<store, tempFiles>>
    /\ PipeFrame

P_summarize(d, ok) ==
    /\ run[d].pc = "summarize"
    /\ run' = [run EXCEPT ![d] =
                 IF ~llm_chat_client
                 THEN [@ EXCEPT !.pc = "index", !.summary = Sentinel]
                 ELSE IF ~ok THEN AfterRaise(@)
                 ELSE [@ EXCEPT !.pc = "index", !.summary = LlmSummary]]
    /\ UNCHANGED <<store, tempFiles>>
    /\ PipeFrame

\* generate_embeddings_and_store_chunks up to the embedding call, lines 194-210:
\* m is the number of vectors embed_documents returns
P_index_IgnoresMismatch(d, ok, m) ==
    /\ run[d].pc = "index"
    /\ run' = [run EXCEPT ![d] =
                 IF ~embeddings_client
                 THEN [@ EXCEPT !.pc = "insert_analysis", !.qna_ready = FALSE]
                 ELSE IF Len(Split(@.text)) = 0
                 THEN [@ EXCEPT !.pc = "insert_analysis", !.qna_ready = TRUE]
                 ELSE IF ~ok THEN AfterRaise(@)
                 ELSE [@ EXCEPT !.pc = "store_chunks", !.emb = m]]
    /\ UNCHANGED <<store, tempFiles>>
    /\ PipeFrame

P_index(d, ok, m) ==
    /\ run[d].pc = "index"
    /\ run' = [run EXCEPT ![d] =
                 IF ~embeddings_client
                 THEN [@ EXCEPT !.pc = "insert_analysis", !.qna_ready = FALSE]
                 ELSE IF Len(Split(@.text)) = 0
                 THEN [@ EXCEPT !.pc = "insert_analysis", !.qna_ready = TRUE]
                 ELSE IF ~ok THEN AfterRaise(@)
                 ELSE IF m # Len(Split(@.text))
                 THEN [@ EXCEPT !.pc = "insert_analysis", !.qna_ready = FALSE,
                                !.emb = m]
                 ELSE [@ EXCEPT !.pc = "store_chunks", !.emb = m]]
    /\ UNCHANGED <<store, tempFiles>>
    /\ PipeFrame

\* lines 212-224
P_store_chunks(d, o) ==
    /\ run[d].pc = "store_chunks"
    /\ document_chunks' =
          IF Applied(o)
          THEN document_chunks \cup ChunkRecords(d, run[d].user, Split(run[d].text))
          ELSE document_chunks
    /\ run' = [run EXCEPT ![d] = IF CheckedRaises(o) THEN AfterRaise(@)
                                 ELSE [@ EXCEPT !.pc = "insert_analysis",
                                                !.qna_ready = TRUE]]
    /\ UNCHANGED <<documents, document_analyses, tempFiles>>
    /\ PipeFrame

\* lines 262-269
P_insert_analysis_Unchecked(d, o) ==
    /\ run[d].pc = "insert_analysis"
    /\ document_analyses' =
          IF Applied(o)
          THEN document_analyses \cup
               {AnalysisPayload(d, run[d].user, run[d].summary, run[d].qna_ready)}
          ELSE document_analyses
    /\ run' = [run EXCEPT ![d] = IF UncheckedRaises(o) THEN AfterRaise(@)
                                 ELSE [@ EXCEPT !.pc = "upd_final"]]
    /\ UNCHANGED <<documents, document_chunks, tempFiles>>
    /\ PipeFrame

P_insert_analysis(d, o) ==
    /\ run[d].pc = "insert_analysis"
    /\ document_analyses' =
          IF Applied(o)
          THEN document_analyses \cup
               {AnalysisPayload(d, run[d].user, run[d].summary, run[d].qna_ready)}
          ELSE document_analyses
    /\ run' = [run EXCEPT ![d] = IF CheckedRaises(o) THEN AfterRaise(@)
                                 ELSE [@ EXCEPT !.pc = "upd_final"]]
    /\ UNCHANGED <<documents, document_chunks, tempFiles>>
    /\ PipeFrame

\* lines 272-275
P_update_final(d, o) ==
    /\ run[d].pc = "upd_final"
    /\ documents' = IF Applied(o)
                    THEN UpdateStatus(documents, d, FinalStatus(run[d].qna_ready))
                    ELSE documents
    /\ run' = [run EXCEPT ![d] = IF CheckedRaises(o) THEN AfterRaise(@)
                                 ELSE [@ EXCEPT !.pc = "finally"]]
    /\ UNCHANGED <<document_analyses, document_chunks, tempFiles>>
    /\ PipeFrame

\* lines 277-281: the compensating write, whose response nobody looks at
P_except(d, o) ==
    /\ run[d].pc = "except"
    /\ documents' = IF Applied(o) THEN UpdateStatus(documents, d, "failed")
                    ELSE documents
    /\ run' = [run EXCEPT ![d] = [@ EXCEPT !.pc = "finally", !.comp = o,
                                           !.escaped = UncheckedRaises(o)]]
    /\ UNCHANGED <<document_analyses, document_chunks, tempFiles>>
    /\ PipeFrame

\* lines 282-287: os.remove, an OSError is swallowed
P_finally(d, removed) ==
    /\ run[d].pc = "finally"
    /\ tempFiles' = IF removed THEN tempFiles \ {d} ELSE tempFiles
    /\ run' = [run EXCEPT ![d] = [@ EXCEPT !.pc = "done", !.text = 0,
                                           !.summary = Null, !.emb = 0]]
    /\ UNCHANGED store
    /\ PipeFrame

process_document_and_store_analysis(d) ==
    \/ \E o \in Outcomes : P_update_parsing(d, o)
    \/ \E ok \in BOOLEAN, n \in 0..MaxChunks : P_extract(d, ok, n)
    \/ \E o \in Outcomes : P_update_analyzing(d, o)
    \/ \E ok \in BOOLEAN : P_summarize(d, ok)
    \/ \E ok \in BOOLEAN, m \in 0..MaxChunks : P_index(d, ok, m)
    \/ \E o \in Outcomes : P_store_chunks(d, o)
    \/ \E o \in Outcomes : P_insert_analysis(d, o)
    \/ \E o \in Outcomes : P_update_final(d, o)
    \/ \E o \in Outcomes : P_except(d, o)
    \/ \E removed \in BOOLEAN : P_finally(d, removed)

\* ---------------------------------------------------------------- reads
\* ids a client can name: the ones uuid4 has handed out
KnownIds == 1..nextId

\* ---------------------------------------------------------------- status
\* maybe_single(): the row, or no data when nothing matches
HasOne(rows) == Cardinality(rows) = 1
TheRow(rows) == CHOOSE r \in rows : TRUE

\* Which read of get_analysis_status fails, if any
StatusFaults == {"none", "document", "analysis"}

\* lines 343-344
StatusOfData(rows) ==
    IF HasOne(rows) THEN TheRow(rows).processing_status ELSE "unknown"

\* line 352
JoinsAnalysis_Always(status) == TRUE
JoinsAnalysis(status) == status \in CompletedStatuses

\* lines 332-369
get_analysis_status(id, fault) ==
    /\ resp = NoResp
    /\ LET status == StatusOfData(DocsOf(id))
           ana == AnalysesOf(id)
           base == [NoResp EXCEPT !.op = "status", !.id = id]
       IN  resp' =
             IF fault = "document" \/ Cardinality(DocsOf(id)) > 1
             THEN [base EXCEPT !.code = 500]
             ELSE IF ~JoinsAnalysis(status)
             THEN [base EXCEPT !.code = 200, !.status = status, !.read_ok = TRUE]
             ELSE IF fault = "analysis" \/ Cardinality(ana) > 1
             THEN [base EXCEPT !.code = 500]
             ELSE IF HasOne(ana)
             THEN [base EXCEPT !.code = 200, !.status = status, !.read_ok = TRUE,
                               !.summary_short = TheRow(ana).summary_short,
                               !.key_findings = TheRow(ana).key_findings,
                               !.qna_ready = TheRow(ana).qna_ready]
             ELSE [base EXCEPT !.code = 200, !.status = status, !.read_ok = TRUE]
    /\ UNCHANGED <<store, clients, nextId, run, tempFiles, nSched, del, dlog>>

\* ---------------------------------------------------------------- query
\* line 378
QnaReady_Unchecked(rows) == TRUE
QnaReady(rows) == HasOne(rows) /\ TheRow(rows).qna_ready

\* the rows of a set of chunk rows, by chunk_order
RECURSIVE Ranked(_)
Ranked(rows) ==
    IF rows = {} THEN <<>>
    ELSE LET first == CHOOSE r \in rows :
                         \A q \in rows : r.chunk_order <= q.chunk_order
         IN  <<first>> \o Ranked(rows \ {first})

\* line 416
Preview(c) == <<"preview", c.chunk_text>>

\* lines 397-402
FallbackAnswer_NoInfo(rows, read) == NoInformation
FallbackAnswer(rows, read) ==
    IF read /\ HasOne(rows) THEN TheRow(rows).summary_short ELSE NoInformation

\* Where a query_document call stops early, if anywhere: the readiness read
\* fails, embed_query raises, the rpc fails, the summary read raises or comes
\* back as an error response, the chain raises.
QueryFaults == {"none", "readiness", "embed", "search", "summary_raise",
                "summary_errresp", "llm"}

\* what the rpc can return: nothing is asked of it when the call stops before it
FoundSets(id, fault) ==
    IF fault \in {"readiness", "embed", "search"} THEN {{}}
    ELSE {f \in SUBSET ChunksOf(id) : Cardinality(f) <= NUM_RELEVANT_CHUNKS}

\* lines 371-417; `found` are the rows match_document_chunks returns
query_document(id, fault, found) ==
    /\ resp = NoResp
    /\ found \subseteq ChunksOf(id)
    /\ Cardinality(found) <= NUM_RELEVANT_CHUNKS
    /\ LET ana == AnalysesOf(id)
           base == [NoResp EXCEPT !.op = "query", !.id = id]
           chunks == Ranked(found)
       IN  resp' =
             IF fault = "readiness" \/ Cardinality(ana) > 1
             THEN [base EXCEPT !.code = 500]
             ELSE IF ~QnaReady(ana)
             THEN [base EXCEPT !.code = 400, !.read_ok = TRUE]
             ELSE IF ~embeddings_client \/ fault = "embed"
             THEN [base EXCEPT !.code = 500, !.read_ok = TRUE, !.calls = {"embed"}]
             ELSE IF fault = "search"
             THEN [base EXCEPT !.code = 500, !.read_ok = TRUE,
                               !.calls = {"embed", "search"}]
             ELSE IF Len(chunks) = 0
             THEN IF fault = "summary_raise"
                  THEN [base EXCEPT !.code = 500, !.read_ok = TRUE,
                                    !.calls = {"embed", "search"}]
                  ELSE [base EXCEPT !.code = 200, !.read_ok = TRUE,
                                    !.calls = {"embed", "search"},
                                    !.nfound = 0,
                                    !.sumread = IF fault = "summary_errresp"
                                                THEN "errresp" ELSE "ok",
                                    !.answer = FallbackAnswer(ana,
                                                  fault # "summary_errresp")]
             ELSE IF ~llm_chat_client \/ fault = "llm"
             THEN [base EXCEPT !.code = 500, !.read_ok = TRUE,
                               !.calls = {"embed", "search", "llm"}]
             ELSE [base EXCEPT !.code = 200, !.read_ok = TRUE,
                               !.calls = {"embed", "search", "llm"},
                               !.nfound = Len(chunks),
                               !.answer = LlmAnswer, !.has_previews = TRUE,
                               !.previews = [i \in 1..Len(chunks) |->
                                               Preview(chunks[i])]]
    /\ UNCHANGED <<store, clients, nextId, run, tempFiles, nSched, del, dlog>>

\* ---------------------------------------------------------------- rename
\* request bodies: the complete ones, and one with each field missing
RenameBodies ==
    (KnownIds \X NewNames \X Users)
    \cup {<<NoId, "b.pdf", "u1">>, <<1, NoName, "u1">>, <<1, "b.pdf", NoUser>>}

DeleteBodies == (KnownIds \X Users) \cup {<<NoId, "u1">>, <<1, NoUser>>}

\* lines 419-433
rename_document_WholeRow(id, new_name, user, o) ==
    /\ resp = NoResp
    /\ IF id = NoId \/ new_name = NoName \/ user = NoUser
       THEN /\ resp' = [NoResp EXCEPT !.op = "rename", !.code = 400]
            /\ UNCHANGED documents
       ELSE /\ documents' =
                 IF Applied(o)
                 THEN {IF MatchDocUser(r, id, user)
                       THEN DocRow(id, user, new_name, "uploaded") ELSE r :
                       r \in documents}
                 ELSE documents
            /\ resp' = [NoResp EXCEPT !.op = "rename", !.id = id, !.user = user,
                                      !.code = IF CheckedRaises(o) THEN 500 ELSE 200]
    /\ UNCHANGED <<document_analyses, document_chunks, clients, nextId, run,
                   tempFiles, nSched, del, dlog>>

rename_document(id, new_name, user, o) ==
    /\ resp = NoResp
    /\ IF id = NoId \/ new_name = NoName \/ user = NoUser
       THEN /\ resp' = [NoResp EXCEPT !.op = "rename", !.code = 400]
            /\ UNCHANGED documents
       ELSE /\ documents' =
                 IF Applied(o)
                 THEN {IF MatchDocUser(r, id, user)
                       THEN [r EXCEPT !.file_name = new_name] ELSE r : r \in documents}
                 ELSE documents
            /\ resp' = [NoResp EXCEPT !.op = "rename", !.id = id, !.user = user,
                                      !.code = IF CheckedRaises(o) THEN 500 ELSE 200]
    /\ UNCHANGED <<document_analyses, document_chunks, clients, nextId, run,
                   tempFiles, nSched, del, dlog>>

\* ---------------------------------------------------------------- delete
DelFrame == UNCHANGED <<clients, nextId, run, tempFiles, nSched>>

DelResp(code) == [NoResp EXCEPT !.op = "delete", !.code = code]

\* lines 436-446: the request, its validation and the first delete
D_analyses(id, user, o) ==
    /\ resp = NoResp
    /\ del.pc = "idle"
    /\ IF id = NoId \/ user = NoUser
       THEN /\ resp' = DelResp(400)
            /\ UNCHANGED <<document_analyses, del, dlog>>
       ELSE /\ document_analyses' =
                 IF Applied(o)
                 THEN {r \in document_analyses : ~MatchChildUser(r, id, user)}
                 ELSE document_analyses
            /\ dlog' = IF user = run[id].user /\ dlog[id] = "none"
                       THEN [dlog EXCEPT ![id] = "issued"] ELSE dlog
            /\ IF UncheckedRaises(o)
               THEN /\ resp' = DelResp(500)
                    /\ UNCHANGED del
               ELSE /\ resp' = NoResp
                    /\ del' = [pc |-> "chunks", id |-> id, user |-> user,
                                applied |-> Applied(o)]
    /\ UNCHANGED <<documents, document_chunks>>
    /\ DelFrame

\* the second call removing the document row instead
D_chunks_Documents(o) ==
    /\ resp = NoResp
    /\ del.pc = "chunks"
    /\ documents' =
          IF Applied(o)
          THEN {r \in documents : ~MatchDocUser(r, del.id, del.user)}
          ELSE documents
    /\ IF UncheckedRaises(o)
       THEN /\ resp' = DelResp(500)
            /\ del' = NoDel
       ELSE /\ resp' = NoResp
            /\ del' = [del EXCEPT !.pc = "documents",
                                   !.applied = @ /\ Applied(o)]
    /\ UNCHANGED <<document_chunks, document_analyses, dlog>>
    /\ DelFrame

\* line 447
D_chunks(o) ==
    /\ resp = NoResp
    /\ del.pc = "chunks"
    /\ document_chunks' =
          IF Applied(o)
          THEN {r \in document_chunks : ~MatchChildUser(r, del.id, del.user)}
          ELSE document_chunks
    /\ IF UncheckedRaises(o)
       THEN /\ resp' = DelResp(500)
            /\ del' = NoDel
       ELSE /\ resp' = NoResp
            /\ del' = [del EXCEPT !.pc = "documents",
                                   !.applied = @ /\ Applied(o)]
    /\ UNCHANGED <<documents, document_analyses, dlog>>
    /\ DelFrame

\* lines 448-450
D_documents(o) ==
    /\ resp = NoResp
    /\ del.pc = "documents"
    /\ documents' =
          IF Applied(o)
          THEN {r \in documents : ~MatchDocUser(r, del.id, del.user)}
          ELSE documents
    /\ resp' = [DelResp(IF CheckedRaises(o) THEN 500 ELSE 200)
                EXCEPT !.id = del.id, !.user = del.user]
    /\ dlog' = IF del.user = run[del.id].user /\ ~CheckedRaises(o)
               THEN [dlog EXCEPT ![del.id] =
                        IF del.applied \/ @ = "ok" THEN "ok" ELSE "returned"]
               ELSE dlog
    /\ del' = NoDel
    /\ UNCHANGED <<document_analyses, document_chunks>>
    /\ DelFrame

delete_document ==
    \/ \E body \in DeleteBodies, o \in Outcomes : D_analyses(body[1], body[2], o)
    \/ \E o \in Outcomes : D_chunks(o)
    \/ \E o \in Outcomes : D_documents(o)

\* The response of the handler that just returned goes out. resp labels the
\* state a handler returned in; the next step is taken from the same store once
\* the response is gone.
SendResponse ==
    /\ resp # NoResp
    /\ resp' = NoResp
    /\ UNCHANGED <<store, clients, nextId, run, tempFiles, nSched, del, dlog>>

Next ==
    \/ \E user \in Uploaders, ctype \in ContentTypes, o \in Outcomes :
          upload_and_process_pdf(user, ctype, o)
    \/ \E d \in DocIds : process_document_and_store_analysis(d)
    \/ \E id \in KnownIds, fault \in StatusFaults : get_analysis_status(id, fault)
    \/ \E id \in KnownIds, fault \in QueryFaults :
          \E found \in FoundSets(id, fault) : query_document(id, fault, found)
    \/ \E body \in RenameBodies, o \in Outcomes :
          rename_document(body[1], body[2], body[3], o)
    \/ delete_document
    \/ SendResponse

Spec == Init /\ [][Next]_vars

\* ---------------------------------------------------------------- SpecLive
\* A run together with the client that polls its status and with
\* delete_document. The event loop runs a scheduled background task to its end:
\* every call the run awaits returns or raises, so the step the run is at is
\* eventually taken, and a response that a handler produced is eventually sent.
NextLive ==
    \/ \E user \in Uploaders, ctype \in ContentTypes, o \in Outcomes :
          upload_and_process_pdf(user, ctype, o)
    \/ \E d \in DocIds : process_document_and_store_analysis(d)
    \/ \E id \in KnownIds, fault \in StatusFaults : get_analysis_status(id, fault)
    \/ delete_document
    \/ SendResponse

Fairness ==
    /\ \A d \in FollowedIds : SF_vars(process_document_and_store_analysis(d))
    /\ WF_vars(SendResponse)

SpecLive == Init /\ [][NextLive]_vars /\ Fairness

\* ---------------------------------------------------------------- SpecFrame
\* The store as two earlier uploads left it: document 1 of u1 and document 2 of
\* u2, both completed, with their Analysis rows and chunk rows; no run is in
\* progress and only the handlers that write to the store act.
EndedRun(user) ==
    [NoRun EXCEPT !.pc = "done", !.user = user, !.qna_ready = TRUE]

InitFrame ==
    /\ documents = {DocRow(1, "u1", OrigName, "completed"),
                    DocRow(2, "u2", OrigName, "completed")}
    /\ document_analyses = {AnalysisPayload(1, "u1", LlmSummary, TRUE),
                            AnalysisPayload(2, "u2", LlmSummary, TRUE)}
    /\ document_chunks = ChunkRecords(1, "u1", Split(1))
                            \cup ChunkRecords(2, "u2", Split(1))
    /\ clients = "both"
    /\ nextId = 2
    /\ run = [d \in DocIds |-> EndedRun(IF d = 1 THEN "u1" ELSE "u2")]
    /\ tempFiles = {}
    /\ nSched = [d \in DocIds |-> 1]
    /\ del = NoDel
    /\ dlog = [d \in DocIds |-> "none"]
    /\ resp = NoResp

NextFrame ==
    \/ \E body \in RenameBodies, o \in Outcomes :
          rename_document(body[1], body[2], body[3], o)
    \/ delete_document
    \/ SendResponse

SpecFrame == InitFrame /\ [][NextFrame]_vars

\* ---------------------------------------------------------------- claims
StatusesOf(d) == {r.processing_status : r \in DocsOf(d)}
RunEnded(d) == run[d].pc = "done"

\* C1: once the pipeline has written completed, completed_no_qna or failed as
\* a document's status, no later step changes that status to another value.
C1_TerminalStatusNeverChanges ==
    [][\A d \in DocIds : \A r \in DocsOf(d) :
          r.processing_status \in TerminalStatuses
          => \A q \in {x \in documents' : x.id = d} :
                q.processing_status = r.processing_status]_vars

\* C2: a PDF upload whose insert succeeds leaves the document row with status
\* uploaded, returns its id and schedules the pipeline exactly once; the row is
\* there with status uploaded until the run makes its first status write; and
\* get_analysis_status for that id does not answer unknown.
C2_UploadCreatesSchedulesResolves ==
    /\ (resp.op = "upload" /\ resp.code = 200)
          => /\ \E r \in documents : /\ r.id = resp.id
                                     /\ r.user_id = resp.user
                                     /\ r.processing_status = "uploaded"
             /\ nSched[resp.id] = 1
             /\ run[resp.id].pc = "scheduled"
    /\ \A d \in DocIds :
          /\ nSched[d] <= 1
          /\ (run[d].pc # "none") = (nSched[d] = 1)
          /\ (run[d].pc = "scheduled" /\ dlog[d] = "none")
                => StatusesOf(d) = {"uploaded"}
    /\ (resp.op = "status" /\ resp.code = 200 /\ nSched[resp.id] = 1
           /\ dlog[resp.id] = "none")
          => resp.status \notin {"unknown", Null}

C2_Witness ==
    /\ resp.op = "status" /\ resp.code = 200
    /\ nSched[resp.id] = 1 /\ run[resp.id].pc = "scheduled"
    /\ resp.status = "uploaded"

\* C3: when a step of the run raised and the compensating write succeeded, the
\* status of the document is failed from then on, and after the raise the run
\* only goes through its except and finally blocks: no stage runs again.
C3_RaiseEndsFailedNoRetry ==
    [][\A d \in DocIds :
          run[d].raised
          => /\ run'[d].raised
             /\ run'[d].pc \in {"except", "finally", "done"}
             /\ run[d].pc = "except" => run'[d].pc \in {"except", "finally"}
             /\ run[d].pc = "finally" => run'[d].pc \in {"finally", "done"}
             /\ run[d].pc = "done" => run'[d].pc = "done"
             /\ {x \in document_analyses' : x.document_id = d} \subseteq AnalysesOf(d)
             /\ {x \in document_chunks' : x.document_id = d} \subseteq ChunksOf(d)
             /\ (run'[d].comp = "ok" /\ run'[d].pc \in {"finally", "done"})
                   => \A q \in {x \in documents' : x.id = d} :
                         q.processing_status = "failed"]_vars

C3_Witness ==
    \E d \in DocIds :
       /\ RunEnded(d) /\ run[d].raised /\ run[d].comp = "ok"
       /\ StatusesOf(d) = {"failed"}
       /\ AnalysesOf(d) # {}

\* C4: when a run ends without having raised, the status is completed exactly
\* if the indexer returned qna_ready = TRUE and completed_no_qna exactly if it
\* returned FALSE, and the Analysis row carries that same qna_ready.
C4_FinalStatusFollowsQnaReady ==
    \A d \in DocIds :
       (RunEnded(d) /\ ~run[d].raised)
       => /\ \A r \in DocsOf(d) :
                /\ (r.processing_status = "completed") = run[d].qna_ready
                /\ (r.processing_status = "completed_no_qna") = ~run[d].qna_ready
          /\ \A a \in AnalysesOf(d) : a.qna_ready = run[d].qna_ready

C4_Witness ==
    \E d \in DocIds :
       /\ RunEnded(d) /\ ~run[d].raised /\ ~run[d].qna_ready
       /\ StatusesOf(d) = {"completed_no_qna"}
       /\ \E a \in AnalysesOf(d) : ~a.qna_ready

\* C5: query_document on a document whose Analysis row is missing or has
\* qna_ready = FALSE makes no embedding, search or completion call and fails;
\* when its readiness read returned, it fails with the not-ready error 400.
C5_NotReadyQueryFailsWithoutCalls ==
    (resp.op = "query" /\ ~(\E a \in AnalysesOf(resp.id) : a.qna_ready))
    => /\ resp.calls = {}
       /\ resp.code \in {400, 500}
       /\ resp.read_ok => resp.code = 400
       /\ resp.answer = Null

C5_Witness ==
    /\ resp.op = "query" /\ resp.code = 400
    /\ \E a \in AnalysesOf(resp.id) : ~a.qna_ready

C7_AnalysisOnlyWhenCompleted ==
    (resp.op = "status" /\ resp.code = 200
       /\ resp.status \notin {"completed", "completed_no_qna"})
    => /\ resp.summary_short = Null
       /\ resp.key_findings = Null
       /\ resp.qna_ready = FALSE

C7_Witness ==
    /\ resp.op = "status" /\ resp.code = 200 /\ resp.status = "analyzing"
    /\ \E a \in AnalysesOf(resp.id) : a.qna_ready /\ a.summary_short # Null

\* rows of the three tables outside the pair (id, user) are the same after the step
OthersUntouched(id, user) ==
    /\ {r \in documents : ~(r.id = id /\ r.user_id = user)}
         = {r \in documents' : ~(r.id = id /\ r.user_id = user)}
    /\ {r \in document_analyses : ~(r.document_id = id /\ r.user_id = user)}
         = {r \in document_analyses' : ~(r.document_id = id /\ r.user_id = user)}
    /\ {r \in document_chunks : ~(r.document_id = id /\ r.user_id = user)}
         = {r \in document_chunks' : ~(r.document_id = id /\ r.user_id = user)}

\* C8: rename_document and delete_document called with (id, user) change or
\* remove only rows whose document id and user id both equal that pair; every
\* other row of documents, document_analyses and document_chunks is unchanged.
C8_RenameDeleteTouchOnlyThePair ==
    [][/\ \A b \in RenameBodies, o \in Outcomes :
             rename_document(b[1], b[2], b[3], o)
             => OthersUntouched(b[1], b[3])
       /\ \A b \in DeleteBodies, o \in Outcomes :
             D_analyses(b[1], b[2], o) => OthersUntouched(b[1], b[2])
       /\ \A o \in Outcomes :
             (D_chunks(o) \/ D_documents(o)) => OthersUntouched(del.id, del.user)]_vars

C8_Witness ==
    /\ resp.op = "delete" /\ resp.code = 200 /\ resp.id = 1 /\ resp.user = "u2"
    /\ \E r \in documents : r.id = 1 /\ r.user_id = "u1"
    /\ \E r \in document_analyses : r.document_id = 1 /\ r.user_id = "u1"
    /\ \E r \in document_chunks : r.document_id = 1 /\ r.user_id = "u1"
    /\ DocsOf(2) = {}

PairsOf(rows) == {<<r.document_id, r.user_id>> : r \in rows}
DocPairs(rows) == {<<r.id, r.user_id>> : r \in rows}

\* C9 as stated: delete_document removes the chunk rows first, then the
\* Analysis row, then the document row, so that Analysis rows go only when no
\* chunk row of the pair is left and the document row goes only when no chunk
\* or Analysis row of the pair is left.
C9_ChunksThenAnalysisThenDocument ==
    [][/\ \A p \in PairsOf(document_analyses) \ PairsOf(document_analyses') :
             p \notin PairsOf(document_chunks)
       /\ \A p \in DocPairs(documents) \ DocPairs(documents') :
             /\ p \notin PairsOf(document_chunks')
             /\ p \notin PairsOf(document_analyses')]_vars

\* C9 as amended: delete_document issues its deletes in the order Analysis
\* rows, chunk rows, document row: Analysis rows are removed only by its first
\* call, chunk rows only by its second, the document row only by its third,
\* and the calls of one request are made in that order.
C9_AnalysisThenChunksThenDocument ==
    [][/\ PairsOf(document_analyses) \ PairsOf(document_analyses') # {}
             => del.pc = "idle" /\ del'.pc \in {"idle", "chunks"}
       /\ PairsOf(document_chunks) \ PairsOf(document_chunks') # {}
             => del.pc = "chunks" /\ del'.pc \in {"idle", "documents"}
       /\ DocPairs(documents) \ DocPairs(documents') # {}
             => del.pc = "documents" /\ del'.pc = "idle"
       /\ (del'.pc = "chunks" /\ del.pc # "chunks") => del.pc = "idle"
       /\ (del'.pc = "documents" /\ del.pc # "documents") => del.pc = "chunks"]_vars

C9_Witness ==
    /\ resp.op = "delete" /\ resp.code = 200 /\ resp.id = 1 /\ resp.user = "u1"
    /\ dlog[1] = "ok"
    /\ DocsOf(1) = {} /\ AnalysesOf(1) = {} /\ ChunksOf(1) = {}
    /\ run[1].pc = "done" /\ ~run[1].raised /\ run[1].qna_ready

\* C10: after delete_document has returned success to the uploader of a
\* document, each of its three deletes having taken effect, no chunk row and no
\* Analysis row of that document exists, whatever a pipeline run for the
\* document does meanwhile or afterwards.
C10_NoChildRowsAfterDelete ==
    \A d \in DocIds :
       dlog[d] = "ok"
       => /\ \A r \in document_analyses :
                ~(r.document_id = d /\ r.user_id = run[d].user)
          /\ \A r \in document_chunks :
                ~(r.document_id = d /\ r.user_id = run[d].user)

\* C11: when a pipeline run has ended, on whichever path (no stage raised, a
\* stage raised, the compensating write raised), the temporary file of that run
\* is no longer in the upload directory.
C11_TempFileRemovedWhenRunEnds ==
    \A d \in DocIds : RunEnded(d) => d \notin tempFiles

StageRank(status) ==
    CASE status = "uploaded" -> 0
      [] status = "parsing" -> 1
      [] status = "analyzing" -> 2
      [] OTHER -> 3

\* the positions a run can move to from a position of its try block
StageSuccessors(pc) ==
    CASE pc = "scheduled" -> {"extract", "except"}
      [] pc = "extract" -> {"upd_analyzing", "except"}
      [] pc = "upd_analyzing" -> {"summarize", "except"}
      [] pc = "summarize" -> {"index", "except"}
      [] pc = "index" -> {"store_chunks", "insert_analysis", "except"}
      [] pc = "store_chunks" -> {"insert_analysis", "except"}
      [] pc = "insert_analysis" -> {"upd_final", "except"}
      [] pc = "upd_final" -> {"finally", "except"}
      [] pc = "except" -> {"finally"}
      [] pc = "finally" -> {"done"}
      [] OTHER -> {}

\* C13: the status writes of a run come in the order parsing, analyzing, one
\* terminal value: a write never takes the status to an earlier stage, a
\* terminal status is not written over by another value, analyzing is written
\* only by the step that follows a successful extraction, and the stages of a
\* run follow one another, one at a time.
C13_StatusWritesInStageOrder ==
    [][\A d \in DocIds :
          /\ \A r \in DocsOf(d) : \A q \in {x \in documents' : x.id = d} :
                /\ StageRank(q.processing_status) >= StageRank(r.processing_status)
                /\ r.processing_status \in TerminalStatuses
                      => q.processing_status = r.processing_status
                /\ (q.processing_status = "analyzing"
                       /\ r.processing_status # "analyzing")
                      => run[d].pc = "upd_analyzing"
          /\ (run[d].pc # "none" /\ run'[d].pc # run[d].pc)
                => run'[d].pc \in StageSuccessors(run[d].pc)]_vars

\* C14: a run never ends by raising to its caller, whichever stage failed and
\* also when the compensating write of status failed itself raises.
C14_NoErrorEscapesTheRun ==
    \A d \in DocIds : RunEnded(d) => ~run[d].escaped

\* the embedding call of d's run returned a number of vectors other than the
\* number of chunks, and the run went on
EmbeddingMismatch(d) ==
    /\ embeddings_client
    /\ run[d].pc \in {"insert_analysis", "upd_final"}
    /\ Len(Split(run[d].text)) > 0
    /\ run[d].emb # Len(Split(run[d].text))

\* C15: when the embedding call returns a number of vectors different from the
\* number of chunks, the indexer returns FALSE, the run goes straight on to the
\* Analysis insert and no chunk row of that run is in the store.
C15_MismatchStoresNoChunk ==
    /\ [](\A d \in DocIds :
             EmbeddingMismatch(d) => ~run[d].qna_ready /\ ChunksOf(d) = {})
    /\ [][\A d \in DocIds :
             (run[d].pc = "index" /\ run'[d].pc # "index" /\ ~run'[d].raised
                 /\ embeddings_client /\ Len(Split(run[d].text)) > 0
                 /\ run'[d].emb # Len(Split(run[d].text)))
             => /\ run'[d].pc = "insert_analysis"
                /\ ~run'[d].qna_ready
                /\ document_chunks' = document_chunks]_vars

C15_Witness ==
    \E d \in DocIds :
       /\ EmbeddingMismatch(d) /\ run[d].pc = "upd_final"
       /\ run[d].emb > 0
       /\ ChunksOf(d) = {}
       /\ \E a \in AnalysesOf(d) : ~a.qna_ready

OrdersOf(d) == {r.chunk_order : r \in ChunksOf(d)}

\* C16: the chunk rows of a document are absent or the whole batch of one
\* indexing run: n rows whose chunk_order values are exactly 0..n-1, each once,
\* the row of order i holding the i-th chunk of the split text; and the rows
\* arrive in one insert, into a table that held no row of the document.
C16_ChunkRowsAreOneWholeBatch ==
    /\ [](\A d \in DocIds :
             LET n == Cardinality(ChunksOf(d)) IN
             /\ n <= MaxChunks
             /\ OrdersOf(d) = 0..(n - 1)
             /\ \A r \in ChunksOf(d) : r.chunk_text = Split(n)[r.chunk_order + 1]
             /\ (n > 0 /\ run[d].pc \notin {"none", "done"})
                   => n = Len(Split(run[d].text)))
    /\ [][\A d \in DocIds :
             ~({x \in document_chunks' : x.document_id = d} \subseteq ChunksOf(d))
             => /\ ChunksOf(d) = {}
                /\ run[d].pc = "store_chunks"
                /\ Cardinality({x \in document_chunks' : x.document_id = d})
                      = Len(Split(run[d].text))]_vars

C16_Witness ==
    \E d \in DocIds :
       /\ Cardinality(ChunksOf(d)) = MaxChunks
       /\ OrdersOf(d) = 0..(MaxChunks - 1)
       /\ run[d].pc = "insert_analysis" /\ run[d].qna_ready

NewAnalysesOf(d) == {x \in document_analyses' : x.document_id = d} \ AnalysesOf(d)

\* C17: an Analysis row is inserted only by a run whose summarizer has returned,
\* with that summary; its qna_ready is TRUE only if the indexer of that run
\* returned TRUE, that is, the text split into no chunk or the chunk batch was
\* inserted before (and is in the store unless the uploader's delete was
\* issued); so no Analysis row with qna_ready = TRUE is visible before then.
C17_AnalysisImpliesStagesReturned ==
    /\ [](\A d \in DocIds : \A a \in AnalysesOf(d) :
             /\ run[d].pc \in {"upd_final", "except", "finally", "done"}
             /\ a.summary_short \in {Sentinel, LlmSummary}
             /\ a.qna_ready => run[d].qna_ready)
    /\ [][\A d \in DocIds : \A a \in NewAnalysesOf(d) :
             /\ run[d].pc = "insert_analysis"
             /\ run[d].summary # Null
             /\ a.summary_short = run[d].summary
             /\ a.qna_ready
                   => /\ run[d].qna_ready
                      /\ embeddings_client
                      /\ \/ Len(Split(run[d].text)) = 0
                         \/ /\ run[d].emb = Len(Split(run[d].text))
                            /\ dlog[d] = "none"
                                  => ChunksOf(d) = ChunkRecords(d, run[d].user,
                                                      Split(run[d].text))]_vars

C17_Witness ==
    \E d \in DocIds :
       /\ run[d].pc = "upd_final" /\ run[d].text > 0
       /\ \E a \in AnalysesOf(d) : a.qna_ready
       /\ ChunksOf(d) # {}

\* the status writes d's run made after a raise were accepted by the store
\* (a run that did not raise had all its status writes accepted)
CompensationAccepted(d) == run[d].comp \notin {"raise", "errresp"}

\* C18: a scheduled run ends; and when it has ended with its status writes
\* accepted by the store, the status of the document is completed,
\* completed_no_qna or failed, not uploaded, parsing or analyzing.
C18_RunEndsInTerminalStatus ==
    \A d \in FollowedIds :
       /\ (run[d].pc = "scheduled") ~> RunEnded(d)
       /\ []((RunEnded(d) /\ CompensationAccepted(d))
                => StatusesOf(d) \subseteq TerminalStatuses)

C18_Witness ==
    \E d \in DocIds :
       /\ RunEnded(d) /\ run[d].raised /\ run[d].comp = "ok"
       /\ StatusesOf(d) = {"failed"}
       /\ AnalysesOf(d) = {} /\ ChunksOf(d) # {}

\* C19: while the uploader has issued no delete for a document, status
\* completed means an Analysis row with qna_ready = TRUE exists and status
\* completed_no_qna means one with qna_ready = FALSE exists; get_analysis_status
\* then reports qna_ready = TRUE exactly when it reports status completed.
C19_CompletedMeansAnalysisAgrees ==
    /\ \A d \in DocIds :
          dlog[d] = "none"
          => \A r \in DocsOf(d) :
                /\ r.processing_status = "completed"
                      => /\ AnalysesOf(d) # {}
                         /\ \A a \in AnalysesOf(d) : a.qna_ready
                /\ r.processing_status = "completed_no_qna"
                      => /\ AnalysesOf(d) # {}
                         /\ \A a \in AnalysesOf(d) : ~a.qna_ready
    /\ (resp.op = "status" /\ resp.code = 200 /\ dlog[resp.id] = "none")
          => (resp.qna_ready = (resp.status = "completed"))

C19_Witness ==
    /\ resp.op = "status" /\ resp.code = 200 /\ dlog[resp.id] = "none"
    /\ resp.status = "completed" /\ resp.qna_ready
    /\ run[resp.id].pc = "finally"

\* a documents table without its file names, and the file names alone
WithoutNames(rows) == {[r EXCEPT !.file_name = NoName] : r \in rows}
NamesOf(rows) == {<<r.id, r.user_id, r.file_name>> : r \in rows}

\* C20: rename_document, at whatever point of a run it comes, changes nothing
\* but file_name: processing_status and error_message of every document row,
\* the Analysis rows, the chunk rows and the run itself are as before; and no
\* step of a pipeline run changes a file_name. So the statuses a polling client
\* reads do not depend on the rename. (A step that leaves resp with op "rename"
\* is a rename_document call; a step that changes run[d] of a scheduled run is
\* a step of that run.)
C20_RenameChangesOnlyFileName ==
    [][/\ (resp = NoResp /\ resp'.op = "rename")
             => /\ WithoutNames(documents') = WithoutNames(documents)
                /\ Cardinality(documents') = Cardinality(documents)
                /\ document_analyses' = document_analyses
                /\ document_chunks' = document_chunks
                /\ run' = run
       /\ \A d \in DocIds :
             (run[d].pc # "none" /\ run'[d] # run[d])
             => NamesOf(documents') = NamesOf(documents)]_vars

C20_Witness ==
    /\ resp.op = "rename" /\ resp.code = 200
    /\ run[resp.id].pc = "summarize"
    /\ \E r \in DocsOf(resp.id) : /\ r.file_name \in NewNames
                                  /\ r.processing_status = "analyzing"
====
